---- MODULE Spec2Model ----
(***************************************************************************)
(* A model of conrig's path resolution and format detection                *)
(* (src/src/path.rs, src/src/parser.rs).                                   *)
(*                                                                         *)
(* A path is a record [dir, name]: the directory it lies in and its file   *)
(* name as the sequence of its dot-separated segments, so "app.cfg.toml"   *)
(* is <<"app", "cfg", "toml">> and ".app" is <<"", "app">>.  The file      *)
(* system is the set of paths std::fs::File::open succeeds on, with the    *)
(* bytes of each file and the directories that exist.  All four format     *)
(* features (toml, json, yaml, ron) are taken as enabled, except in        *)
(* SpecBuild, which ranges over the builds.                                *)
(*                                                                         *)
(* A value of the configuration type is a sequence of field tokens and a   *)
(* document is the format's name followed by the fields: the serializers   *)
(* are external crates, taken to decode what they encode.                  *)
(*                                                                         *)
(* SpecRace runs the operations of one ConfigFile for two callers, one     *)
(* file-system call at a time: the library holds no lock, and each open    *)
(* file has its own offset.                                                *)
(***************************************************************************)
EXTENDS Naturals, Sequences, FiniteSets

VARIABLES fs, desc, platform, raw, file, op, ret, det,
          dirs, data, arg, fault, out, trace, features, callers

vars == <<fs, desc, platform, raw, file, op, ret, det,
          dirs, data, arg, fault, out, trace, features, callers>>

\* ---------------------------------------------------------------- bounds

\* The most files the environment creates before the program runs.
MaxFiles == 2

\* ------------------------------------------------------- Option / Result

None == [some |-> FALSE]

Some(v) == [some |-> TRUE, val |-> v]

Ok(v) == [ok |-> TRUE, val |-> v]

Err(e) == [ok |-> FALSE, err |-> e]

\* ------------------------------------------------------------ FileFormat

FileFormat == {"Toml", "Ron", "Json", "Yaml"}

\* FileFormat::extension: Yaml has the single extension "yaml".
extension(format) ==
    CASE format = "Json" -> "json"
      [] format = "Yaml" -> "yaml"
      [] format = "Toml" -> "toml"
      [] format = "Ron" -> "ron"

\* ------------------------------------------------------------- std::path

Path(dir, name) == [dir |-> dir, name |-> name]

\* Path::extension: None without an embedded dot, None for a name that
\* begins with a dot and has no other dot, else the part after the last dot.
PathExtension(p) ==
    LET n == Len(p.name)
    IN  IF n <= 1 THEN None
        ELSE IF n = 2 /\ p.name[1] = "" THEN None
        ELSE Some(p.name[n])

\* Path::file_stem, as the segments it keeps.
PathFileStem(p) ==
    IF PathExtension(p).some THEN SubSeq(p.name, 1, Len(p.name) - 1) ELSE p.name

\* Path::with_extension: the file stem, then ".", then ext (ext given as its
\* own dot-separated segments: "cfg.toml" is <<"cfg", "toml">>).
with_extension(p, ext) == Path(p.dir, PathFileStem(p) \o ext)

\* PathBuf::join of a directory and a file name.
join(base, name) == Path(base, name)

\* ------------------------------------------------- detect_file_format

\* One invocation of the try_open! macro on the function's `path`.  The
\* repetitions of one invocation are expanded into the same scope, so the
\* `let path = path.with_extension(ext)` of one repetition is the `path` the
\* next repetition reads; `?` on a path without an extension leaves the
\* whole function with None.  [returned] tells whether the function
\* returned inside the invocation, [val] what it returned.
RECURSIVE try_open(_, _, _, _)
try_open(path, exts, ty, files) ==
    IF exts = <<>> THEN [returned |-> FALSE, val |-> None]
    ELSE IF ~PathExtension(path).some THEN [returned |-> TRUE, val |-> None]
    ELSE LET ext == <<PathExtension(path).val, Head(exts)>>
             next == with_extension(path, ext)
         IN  IF next \in files
             THEN [returned |-> TRUE,
                   val |-> Some([path |-> next, file_format |-> ty])]
             ELSE try_open(next, Tail(exts), ty, files)

detect_file_format(path, default_format, files) ==
    LET t == try_open(path, <<"toml">>, "Toml", files)
        j == try_open(path, <<"json">>, "Json", files)
        y == try_open(path, <<"yaml", "yml">>, "Yaml", files)
        r == try_open(path, <<"ron">>, "Ron", files)
    IN  IF t.returned THEN t.val
        ELSE IF j.returned THEN j.val
        ELSE IF y.returned THEN y.val
        ELSE IF r.returned THEN r.val
        ELSE IF path \in files
             THEN Some([path |-> path, file_format |-> default_format])
             ELSE None

\* ---------------------------------------------------------------- std::fs

\* The directory a directory lies in, for those whose parent the model
\* tracks: the system directories lie in the user's configuration home.
dir_parent(d) ==
    IF d \in {"config_dir", "preference_dir"} THEN Some("config_home") ELSE None

\* std::fs::create_dir_all: the directory and every missing ancestor.
RECURSIVE create_dir_all(_, _)
create_dir_all(d, ds) ==
    IF d \in ds THEN ds
    ELSE IF dir_parent(d).some
         THEN create_dir_all(dir_parent(d).val, ds) \cup {d}
         ELSE ds \cup {d}

\* ------------------------------------------------------------ ProjectPath

\* What the platform answers at a call: whether directories::ProjectDirs
\* finds a home directory, and whether std::env::current_dir succeeds.
Platforms ==
    { [home |-> TRUE, cwd |-> TRUE],
      [home |-> FALSE, cwd |-> TRUE],
      [home |-> TRUE, cwd |-> FALSE] }

sys_config_dir(plat) == IF plat.home THEN Some("config_dir") ELSE None

sys_preference_dir(plat) == IF plat.home THEN Some("preference_dir") ELSE None

sys_dir(cfg_sys_type, plat) ==
    CASE cfg_sys_type = "Preference" -> sys_preference_dir(plat)
      [] cfg_sys_type = "Config" -> sys_config_dir(plat)

current_dir(plat) == IF plat.cwd THEN Ok("current_dir") ELSE Err("OpenConfig")

\* ----------------------------------------------------- ConfigPathMetadata

\* The closure with the dotted stem put first.
make_paths_of_name_dot_first(base, name, with_dot) ==
    IF with_dot
    THEN <<join(base, <<"">> \o name), join(base, name)>>
    ELSE <<join(base, name)>>

\* The closure with the dotted stem listed whatever with_dot says.
make_paths_of_name_always_dot(base, name, with_dot) ==
    <<join(base, name), join(base, <<"">> \o name)>>

\* The closure make_paths maps over names: the stem, then the dotted stem.
make_paths_of_name(base, name, with_dot) ==
    IF with_dot
    THEN <<join(base, name), join(base, <<"">> \o name)>>
    ELSE <<join(base, name)>>

RECURSIVE make_paths(_, _, _)
make_paths(base, names, with_dot) ==
    IF names = <<>> THEN <<>>
    ELSE make_paths_of_name(base, Head(names), with_dot)
         \o make_paths(base, Tail(names), with_dot)

\* extra_folders.iter().flat_map(|t| make_paths(PathBuf::from(t), ...)).
RECURSIVE extra_folder_paths(_, _, _)
extra_folder_paths(folders, names, with_dot) ==
    IF folders = <<>> THEN <<>>
    ELSE make_paths(Head(folders), names, with_dot)
         \o extra_folder_paths(Tail(folders), names, with_dot)

\* The two roots' candidates in the order sys_override_local chooses.
root_paths(d, sys, cwd) ==
    LET sys_files ==
            make_paths(sys, d.config_name, d.config_option.allow_dot_prefix)
        current_dir_files ==
            make_paths(cwd, d.config_name, d.config_option.allow_dot_prefix)
    IN  IF d.config_option.sys_override_local
        THEN sys_files \o current_dir_files
        ELSE current_dir_files \o sys_files

\* The chain with the roots probed before the extra locations.
search_sequence_roots_first(d, sys, cwd) ==
    root_paths(d, sys, cwd)
    \o d.extra_files
    \o extra_folder_paths(d.extra_folders, d.config_name,
                          d.config_option.allow_dot_prefix)

\* The chain search_config_file probes: extra files, extra folders, roots.
search_sequence(d, sys, cwd) ==
    d.extra_files
    \o extra_folder_paths(d.extra_folders, d.config_name,
                          d.config_option.allow_dot_prefix)
    \o root_paths(d, sys, cwd)

\* The hit of the last candidate that has one.
RECURSIVE first_detected_last(_, _, _)
first_detected_last(cands, default_format, files) ==
    IF cands = <<>> THEN None
    ELSE LET hit == detect_file_format(cands[Len(cands)], default_format, files)
         IN  IF hit.some THEN hit
             ELSE first_detected_last(SubSeq(cands, 1, Len(cands) - 1),
                                      default_format, files)

\* filter_map(|t| detect_file_format(t, default_format)).next(): the hit of
\* the first candidate that has one.
RECURSIVE first_detected(_, _, _)
first_detected(cands, default_format, files) ==
    IF cands = <<>> THEN None
    ELSE LET hit == detect_file_format(Head(cands), default_format, files)
         IN  IF hit.some THEN hit
             ELSE first_detected(Tail(cands), default_format, files)

RawConfigFile(file_format, path) == [file_format |-> file_format, path |-> path]

ConfigFile(file_format, path) == [file_format |-> file_format, path |-> path]

\* What search_config_file builds from the first hit, or from none.
search_target(last, d) ==
    IF last.some
    THEN RawConfigFile(last.val.file_format, Some(last.val.path))
    ELSE RawConfigFile(d.default_format, None)

\* The search with a missing system root skipped rather than reported.
search_config_file_skip_sys(d, plat, files) ==
    LET sys == sys_dir(d.config_option.config_sys_type, plat)
        cwd == current_dir(plat)
        local ==
            d.extra_files
            \o extra_folder_paths(d.extra_folders, d.config_name,
                                  d.config_option.allow_dot_prefix)
            \o make_paths(cwd.val, d.config_name,
                          d.config_option.allow_dot_prefix)
    IN  IF ~cwd.ok THEN cwd
        ELSE IF ~sys.some
             THEN Ok(search_target(
                       first_detected(local, d.default_format, files), d))
        ELSE Ok(search_target(
                  first_detected(search_sequence(d, sys.val, cwd.val),
                                 d.default_format, files), d))

search_config_file(d, plat, files) ==
    LET sys == sys_dir(d.config_option.config_sys_type, plat)
        cwd == current_dir(plat)
    IN  IF ~sys.some THEN Err("NoProjectDirectory")
        ELSE IF ~cwd.ok THEN cwd
        ELSE Ok(search_target(
                  first_detected(search_sequence(d, sys.val, cwd.val),
                                 d.default_format, files), d))

\* self.config_name[0] panics on an empty slice; the panic is the error
\* "panic" of the call.
default_sys_config_file(d, plat) ==
    LET sys == sys_dir(d.config_option.config_sys_type, plat)
    IN  IF ~sys.some THEN Err("NoProjectDirectory")
        ELSE IF d.config_name = <<>> THEN Err("panic")
        ELSE Ok(with_extension(join(sys.val, d.config_name[1]),
                               <<extension(d.default_format)>>))

default_local_config_file(d, plat) ==
    LET cwd == current_dir(plat)
    IN  IF ~cwd.ok THEN cwd
        ELSE IF d.config_name = <<>> THEN Err("panic")
        ELSE Ok(with_extension(join(cwd.val, d.config_name[1]),
                               <<extension(d.default_format)>>))

\* The choice with its branches exchanged.
default_config_file_swapped(d, plat) ==
    IF d.config_option.sys_override_local
    THEN default_local_config_file(d, plat)
    ELSE default_sys_config_file(d, plat)

default_config_file(d, plat) ==
    IF d.config_option.sys_override_local
    THEN default_sys_config_file(d, plat)
    ELSE default_local_config_file(d, plat)

\* ---------------------------------------------------------- RawConfigFile

\* self.path.ok_or(()).unwrap_or(path)
fallback_path(self, path) ==
    ConfigFile(self.file_format, IF self.path.some THEN self.path.val ELSE path)

\* The default computed first, its error returned whatever the path is.
or_else_default_eager(self, default) ==
    IF ~default.ok THEN default
    ELSE IF self.path.some THEN Ok(ConfigFile(self.file_format, self.path.val))
    ELSE Ok(ConfigFile(self.file_format, default.val))

\* self.path.ok_or(()).or_else(|_| default)?: the default is computed only
\* when the path is None, and its error is the call's error.
or_else_default(self, default) ==
    IF self.path.some THEN Ok(ConfigFile(self.file_format, self.path.val))
    ELSE IF default.ok THEN Ok(ConfigFile(self.file_format, default.val))
    ELSE default

fallback_default_sys(self, d, plat) ==
    or_else_default(self, default_sys_config_file(d, plat))

fallback_default_local(self, d, plat) ==
    or_else_default(self, default_local_config_file(d, plat))

fallback_default(self, d, plat) ==
    or_else_default(self, default_config_file(d, plat))

\* ------------------------------------------------- values and encodings

\* The values of the configuration type T the model writes: sequences of
\* field tokens.  A value holding "?" is one the serializers reject.
Values == { <<"a">>, <<"b">>, <<"a", "b">> }

Unencodable == <<"a", "?">>

\* T::default().
DefaultValue == <<"a">>

\* The unit value a successful write returns.
Unit == "()"

Representable(v) == \A i \in DOMAIN v : v[i] # "?"

\* The document a serializer produces for a value: the format's own
\* syntax, then the fields.
encode(format, v) == <<format>> \o v

\* The longest prefix of the document a streaming serializer emits before
\* it meets a field it rejects.
RECURSIVE encodable_prefix(_)
encodable_prefix(v) ==
    IF v = <<>> \/ Head(v) = "?" THEN <<>>
    ELSE <<Head(v)>> \o encodable_prefix(Tail(v))

\* Bytes that are valid UTF-8: read_to_string rejects the others.
IsUtf8(bytes) == \A i \in DOMAIN bytes : bytes[i] # "0xFF"

\* FileFormat::read_str: the value whose document in this format the input
\* is, or the parser's error.
read_str(format, input) ==
    IF \E v \in Values : encode(format, v) = input
    THEN Ok(CHOOSE v \in Values : encode(format, v) = input)
    ELSE Err("LangError")

\* What the operating system does to the calls of one operation: the kind
\* of call it fails ("none": none), and how many bytes a failing write_all
\* has put into the file.
Faults ==
    { [call |-> c, n |-> 0] :
        c \in {"none", "create_dir_all", "open", "read_to_string"} }
    \cup { [call |-> "write_all", n |-> k] : k \in {0, 1} }

Call(name, ok) == [call |-> name, ok |-> ok]

\* Path::parent: None for a path without a file name.
parent(p) == IF p.name = <<>> THEN None ELSE Some(p.dir)

\* File::options().write(true).create(true).open(path) without truncate:
\* an existing file keeps its bytes.
open_write_no_truncate(path, disk) ==
    [disk EXCEPT
        !.fs = @ \cup {path},
        !.data = [q \in disk.fs \cup {path} |->
                     IF q \in disk.fs THEN disk.data[q] ELSE <<>>]]

\* File::options().write(true).truncate(true).create(true).open(path).
open_write(path, disk) ==
    [disk EXCEPT
        !.fs = @ \cup {path},
        !.data = [q \in disk.fs \cup {path} |->
                     IF q = path THEN <<>> ELSE disk.data[q]]]

\* Bytes written at the start of the open file, over what it holds.
write_bytes(path, buf, disk) ==
    LET held == disk.data[path]
    IN  [disk EXCEPT
            !.data[path] = buf \o SubSeq(held, Len(buf) + 1, Len(held))]

\* FileFormat::write with every format serialized into the writer.
format_write_streaming(format, input, path, os, disk) ==
    LET buf == encode(format, input)
    IN  IF os.call = "write_all"
        THEN [ret |-> Err(IF format \in {"Toml", "Ron"}
                          THEN "WriteConfig" ELSE "LangError"),
              disk |-> write_bytes(path, SubSeq(buf, 1, os.n), disk),
              trace |-> <<Call("write_all", FALSE)>>]
        ELSE IF ~Representable(input)
        THEN [ret |-> Err("LangError"),
              disk |-> write_bytes(path, <<format>> \o encodable_prefix(input),
                                   disk),
              trace |-> <<Call("write_all", TRUE), Call("serialize", FALSE)>>]
        ELSE [ret |-> Ok(Unit), disk |-> write_bytes(path, buf, disk),
              trace |-> <<Call("write_all", TRUE), Call("serialize", TRUE)>>]

\* FileFormat::write.  Toml and Ron serialize to a String and write_all it,
\* a failure of write_all being WriteConfig; Json and Yaml serialize into
\* the writer, and every error of to_writer, the writer's included, is
\* mapped to LangError.
format_write(format, input, path, os, disk) ==
    LET buf == encode(format, input)
    IN  IF format \in {"Toml", "Ron"}
        THEN IF ~Representable(input)
             THEN [ret |-> Err("LangError"), disk |-> disk,
                   trace |-> <<Call("serialize", FALSE)>>]
             ELSE IF os.call = "write_all"
             THEN [ret |-> Err("WriteConfig"),
                   disk |-> write_bytes(path, SubSeq(buf, 1, os.n), disk),
                   trace |-> <<Call("serialize", TRUE),
                               Call("write_all", FALSE)>>]
             ELSE [ret |-> Ok(Unit), disk |-> write_bytes(path, buf, disk),
                   trace |-> <<Call("serialize", TRUE),
                               Call("write_all", TRUE)>>]
        ELSE IF os.call = "write_all"
             THEN [ret |-> Err("LangError"),
                   disk |-> write_bytes(path, SubSeq(buf, 1, os.n), disk),
                   trace |-> <<Call("write_all", FALSE)>>]
             ELSE IF ~Representable(input)
             THEN [ret |-> Err("LangError"),
                   disk |-> write_bytes(
                                path, <<format>> \o encodable_prefix(input),
                                disk),
                   trace |-> <<Call("write_all", TRUE),
                               Call("serialize", FALSE)>>]
             ELSE [ret |-> Ok(Unit), disk |-> write_bytes(path, buf, disk),
                   trace |-> <<Call("write_all", TRUE),
                               Call("serialize", TRUE)>>]

\* ------------------------------------------------------------ ConfigFile

\* ConfigFile::read with a failure to open reported as the parser's error.
read_open_as_lang(self, os, disk) ==
    IF self.path \notin disk.fs \/ os.call = "open"
    THEN [ret |-> Err("LangError"), disk |-> disk,
          trace |-> <<Call("open", FALSE)>>]
    ELSE IF os.call = "read_to_string" \/ ~IsUtf8(disk.data[self.path])
    THEN [ret |-> Err("ReadConfig"), disk |-> disk,
          trace |-> <<Call("open", TRUE), Call("read_to_string", FALSE)>>]
    ELSE LET result == read_str(self.file_format, disk.data[self.path])
         IN  [ret |-> result, disk |-> disk,
              trace |-> <<Call("open", TRUE), Call("read_to_string", TRUE),
                          Call("read_str", result.ok)>>]

\* ConfigFile::read: open, read_to_string, read_str.
read(self, os, disk) ==
    IF self.path \notin disk.fs \/ os.call = "open"
    THEN [ret |-> Err("OpenConfig"), disk |-> disk,
          trace |-> <<Call("open", FALSE)>>]
    ELSE IF os.call = "read_to_string" \/ ~IsUtf8(disk.data[self.path])
    THEN [ret |-> Err("ReadConfig"), disk |-> disk,
          trace |-> <<Call("open", TRUE), Call("read_to_string", FALSE)>>]
    ELSE LET result == read_str(self.file_format, disk.data[self.path])
         IN  [ret |-> result, disk |-> disk,
              trace |-> <<Call("open", TRUE), Call("read_to_string", TRUE),
                          Call("read_str", result.ok)>>]

\* ConfigFile::write with the file opened without being truncated.
write_no_truncate(self, value, os, disk) ==
    IF ~parent(self.path).some
    THEN [ret |-> Err("NoProjectDirectory"), disk |-> disk, trace |-> <<>>]
    ELSE IF os.call = "create_dir_all"
    THEN [ret |-> Err("WriteConfig"), disk |-> disk,
          trace |-> <<Call("create_dir_all", FALSE)>>]
    ELSE LET made == [disk EXCEPT
                         !.dirs = create_dir_all(parent(self.path).val, @)]
         IN  IF os.call = "open"
             THEN [ret |-> Err("OpenConfig"), disk |-> made,
                   trace |-> <<Call("create_dir_all", TRUE),
                               Call("open_write", FALSE)>>]
             ELSE LET w == format_write(self.file_format, value, self.path, os,
                                        open_write_no_truncate(self.path, made))
                  IN  [ret |-> w.ret, disk |-> w.disk,
                       trace |-> <<Call("create_dir_all", TRUE),
                                   Call("open_write", TRUE)>> \o w.trace]

\* ConfigFile::write on the path with the format's own extension put in
\* place of the path's.
write_format_extension(self, value, os, disk) ==
    LET path == with_extension(self.path, <<extension(self.file_format)>>)
    IN  IF ~parent(path).some
        THEN [ret |-> Err("NoProjectDirectory"), disk |-> disk, trace |-> <<>>]
        ELSE IF os.call = "create_dir_all"
        THEN [ret |-> Err("WriteConfig"), disk |-> disk,
              trace |-> <<Call("create_dir_all", FALSE)>>]
        ELSE LET made == [disk EXCEPT
                             !.dirs = create_dir_all(parent(path).val, @)]
             IN  IF os.call = "open"
                 THEN [ret |-> Err("OpenConfig"), disk |-> made,
                       trace |-> <<Call("create_dir_all", TRUE),
                                   Call("open_write", FALSE)>>]
                 ELSE LET w == format_write(self.file_format, value, path, os,
                                            open_write(path, made))
                      IN  [ret |-> w.ret, disk |-> w.disk,
                           trace |-> <<Call("create_dir_all", TRUE),
                                       Call("open_write", TRUE)>> \o w.trace]

\* ConfigFile::write: create_dir_all of the parent, open with write,
\* truncate and create, FileFormat::write.
write(self, value, os, disk) ==
    IF ~parent(self.path).some
    THEN [ret |-> Err("NoProjectDirectory"), disk |-> disk, trace |-> <<>>]
    ELSE IF os.call = "create_dir_all"
    THEN [ret |-> Err("WriteConfig"), disk |-> disk,
          trace |-> <<Call("create_dir_all", FALSE)>>]
    ELSE LET made == [disk EXCEPT
                         !.dirs = create_dir_all(parent(self.path).val, @)]
         IN  IF os.call = "open"
             THEN [ret |-> Err("OpenConfig"), disk |-> made,
                   trace |-> <<Call("create_dir_all", TRUE),
                               Call("open_write", FALSE)>>]
             ELSE LET w == format_write(self.file_format, value, self.path, os,
                                        open_write(self.path, made))
                  IN  [ret |-> w.ret, disk |-> w.disk,
                       trace |-> <<Call("create_dir_all", TRUE),
                                   Call("open_write", TRUE)>> \o w.trace]

\* ConfigFile::read_or_new with the file read back after it is written.
read_or_new_reread(self, default, os, disk) ==
    IF self.path \in disk.fs
    THEN LET r == read(self, os, disk)
         IN  [r EXCEPT !.trace = <<Call("exists", TRUE)>> \o @]
    ELSE IF ~parent(self.path).some
    THEN [ret |-> Err("NoProjectDirectory"), disk |-> disk,
          trace |-> <<Call("exists", FALSE)>>]
    ELSE IF os.call = "create_dir_all"
    THEN [ret |-> Err("WriteConfig"), disk |-> disk,
          trace |-> <<Call("exists", FALSE), Call("create_dir_all", FALSE)>>]
    ELSE LET made == [disk EXCEPT
                         !.dirs = create_dir_all(parent(self.path).val, @)]
             w == write(self, default, os, made)
             r == read(self, os, w.disk)
             calls == <<Call("exists", FALSE), Call("create_dir_all", TRUE)>>
         IN  IF ~w.ret.ok
             THEN [ret |-> w.ret, disk |-> w.disk, trace |-> calls \o w.trace]
             ELSE [ret |-> r.ret, disk |-> r.disk,
                   trace |-> calls \o w.trace \o r.trace]

\* ConfigFile::read_or_new that replaces a file it cannot read by the
\* default.
read_or_new_default_on_error(self, default, os, disk) ==
    LET r == read(self, os, disk)
        w == write(self, default, os, disk)
    IN  IF self.path \in disk.fs /\ r.ret.ok
        THEN [r EXCEPT !.trace = <<Call("exists", TRUE)>> \o @]
        ELSE IF ~w.ret.ok
        THEN [w EXCEPT !.trace = <<Call("exists", FALSE)>> \o @]
        ELSE [ret |-> Ok(default), disk |-> w.disk,
              trace |-> <<Call("exists", FALSE)>> \o w.trace]

\* ConfigFile::read_or_new: read when path.exists(), else create_dir_all of
\* the parent, write of the default, and the default itself returned.
read_or_new(self, default, os, disk) ==
    IF self.path \in disk.fs
    THEN LET r == read(self, os, disk)
         IN  [r EXCEPT !.trace = <<Call("exists", TRUE)>> \o @]
    ELSE IF ~parent(self.path).some
    THEN [ret |-> Err("NoProjectDirectory"), disk |-> disk,
          trace |-> <<Call("exists", FALSE)>>]
    ELSE IF os.call = "create_dir_all"
    THEN [ret |-> Err("WriteConfig"), disk |-> disk,
          trace |-> <<Call("exists", FALSE), Call("create_dir_all", FALSE)>>]
    ELSE LET made == [disk EXCEPT
                         !.dirs = create_dir_all(parent(self.path).val, @)]
             w == write(self, default, os, made)
             calls == <<Call("exists", FALSE), Call("create_dir_all", TRUE)>>
         IN  IF ~w.ret.ok
             THEN [ret |-> w.ret, disk |-> w.disk, trace |-> calls \o w.trace]
             ELSE [ret |-> Ok(default), disk |-> w.disk,
                   trace |-> calls \o w.trace]

read_or_default(self, os, disk) == read_or_new(self, DefaultValue, os, disk)

\* ------------------------------------------- ConfigFile, call by call

\* The callers that share a handle, with no lock between them.
Callers == {"c1", "c2"}

\* A caller: the operation it is in (op, arg), the call it makes next
\* (pc), the offset of the file it has open (off), the text it has read
\* (got), what the operation returned (ret); and of the operation's
\* history: whether no other caller's operation overlapped it (alone),
\* whether the path was missing when it began (fresh), and the branch
\* read_or_new took (branch).
Idle ==
    [ op |-> "none", arg |-> None, pc |-> "idle", off |-> 0, got |-> <<>>,
      ret |-> None, alone |-> TRUE, fresh |-> FALSE, branch |-> "none" ]

NoCallers == [c \in Callers |-> Idle]

Running(t) == t.pc \notin {"idle", "done"}

\* A write that appends to the file whatever the offset of the handle.
write_at_append(bytes, off, chunk) == bytes \o chunk

\* Write::write on a File: the chunk goes to the handle's own offset, over
\* what the file holds there; the gap a truncation by another handle has
\* left below the offset reads as zero bytes.
write_at(bytes, off, chunk) ==
    LET held == IF Len(bytes) < off
                THEN bytes \o [i \in 1..(off - Len(bytes)) |-> "0x00"]
                ELSE bytes
    IN  SubSeq(held, 1, off) \o chunk
        \o SubSeq(held, off + Len(chunk) + 1, Len(held))

\* What the operation returns once its write has succeeded, with
\* read_or_new returning T::default() in place of its argument.
returned_default_value(t) ==
    IF t.op = "read_or_new" THEN Ok(DefaultValue) ELSE Ok(Unit)

\* What the operation returns once its write has succeeded: write the unit,
\* read_or_new its argument.
returned(t) == IF t.op = "read_or_new" THEN Ok(t.arg.val) ELSE Ok(Unit)

Return(t, r) == [t EXCEPT !.pc = "done", !.ret = Some(r)]

\* path.exists() in read_or_new.
step_exists(self, t, disk) ==
    [ t |-> IF self.path \in disk.fs
            THEN [t EXCEPT !.pc = "open", !.branch = "read"]
            ELSE [t EXCEPT !.pc = "new_create_dir_all", !.branch = "create"],
      disk |-> disk ]

\* fs::create_dir_all(path.parent().ok_or(NoProjectDirectory)?), in
\* read_or_new (then write follows) and in write (then the open follows).
step_create_dir_all(self, t, disk) ==
    IF ~parent(self.path).some
    THEN [t |-> Return(t, Err("NoProjectDirectory")), disk |-> disk]
    ELSE [ t |-> [t EXCEPT !.pc = IF t.pc = "new_create_dir_all"
                                  THEN "create_dir_all" ELSE "open_write"],
           disk |-> [disk EXCEPT
                        !.dirs = create_dir_all(parent(self.path).val, @)] ]

\* File::options().write(true).truncate(true).create(true).open(path): the
\* handle starts at offset 0.
step_open_write(self, t, disk) ==
    [ t |-> [t EXCEPT !.off = 0,
                      !.pc = IF self.file_format \in {"Toml", "Ron"}
                             THEN "format_write" ELSE "to_writer"],
      disk |-> open_write(self.path, disk) ]

\* FileFormat::write for Toml and Ron: to_string, then one write_all of the
\* String.
step_format_write(self, t, disk) ==
    LET buf == encode(self.file_format, t.arg.val)
    IN  IF ~Representable(t.arg.val)
        THEN [t |-> Return(t, Err("LangError")), disk |-> disk]
        ELSE [ t |-> Return([t EXCEPT !.off = Len(buf)], returned(t)),
               disk |-> [disk EXCEPT !.data[self.path] =
                                        write_at(@, t.off, buf)] ]

\* FileFormat::write for Json and Yaml: to_writer hands the document to
\* the file piece by piece, and stops at a field it rejects.
step_to_writer(self, t, disk) ==
    LET buf == encode(self.file_format, t.arg.val)
        piece == buf[t.off + 1]
        last == t.off + 1 = Len(buf)
        wrote == [t EXCEPT !.off = @ + 1]
    IN  IF piece = "?"
        THEN [t |-> Return(t, Err("LangError")), disk |-> disk]
        ELSE [ t |-> IF last THEN Return(wrote, returned(t)) ELSE wrote,
               disk |-> [disk EXCEPT !.data[self.path] =
                                        write_at(@, t.off, <<piece>>)] ]

\* fs::File::open(path) in read.
step_open(self, t, disk) ==
    [ t |-> IF self.path \in disk.fs
            THEN [t EXCEPT !.pc = "read_to_string", !.off = 0, !.got = <<>>]
            ELSE Return(t, Err("OpenConfig")),
      disk |-> disk ]

\* One round of read_to_string: what the file holds beyond the offset, or,
\* when that is nothing, the end of the file, the check of the text being
\* UTF-8, and read_str.
step_read_to_string(self, t, disk) ==
    LET held == disk.data[self.path]
        more == SubSeq(held, t.off + 1, Len(held))
    IN  [ t |-> IF more # <<>>
                THEN [t EXCEPT !.got = @ \o more, !.off = Len(held)]
                ELSE IF ~IsUtf8(t.got) THEN Return(t, Err("ReadConfig"))
                ELSE Return(t, read_str(self.file_format, t.got)),
          disk |-> disk ]

\* ------------------------------------- RawConfigFile: reading and writing

NoConfigurationFile(disk) ==
    [ret |-> Err("NoConfigurationFile"), disk |-> disk, trace |-> <<>>]

raw_read(self, os, disk) ==
    IF self.path.some
    THEN read(ConfigFile(self.file_format, self.path.val), os, disk)
    ELSE NoConfigurationFile(disk)

\* RawConfigFile::write that creates the system directory's tree before it
\* looks at the path.
raw_write_dirs_first(self, value, os, disk) ==
    IF self.path.some
    THEN write(ConfigFile(self.file_format, self.path.val), value, os, disk)
    ELSE NoConfigurationFile(
             [disk EXCEPT !.dirs = create_dir_all("config_dir", @)])

raw_write(self, value, os, disk) ==
    IF self.path.some
    THEN write(ConfigFile(self.file_format, self.path.val), value, os, disk)
    ELSE NoConfigurationFile(disk)

raw_read_or_new(self, default, os, disk) ==
    IF self.path.some
    THEN read_or_new(ConfigFile(self.file_format, self.path.val),
                     default, os, disk)
    ELSE NoConfigurationFile(disk)

raw_read_or_default(self, os, disk) ==
    raw_read_or_new(self, DefaultValue, os, disk)

\* ------------------------------------- ConfigPathMetadata: the shortcuts

\* self.search_config_file()?.fallback_default()?
resolve(d, plat, files) ==
    LET found == search_config_file(d, plat, files)
    IN  IF found.ok THEN fallback_default(found.val, d, plat) ELSE found

\* What a shortcut returns when no handle is resolved.
Unresolved(e, disk) == [ret |-> e, disk |-> disk, trace |-> <<>>]

\* ConfigPathMetadata::read that reads the default file without searching.
shortcut_read_no_search(d, plat, os, disk) ==
    LET h == default_config_file(d, plat)
    IN  IF h.ok THEN read(ConfigFile(d.default_format, h.val), os, disk)
        ELSE Unresolved(h, disk)

shortcut_read(d, plat, os, disk) ==
    LET h == resolve(d, plat, disk.fs)
    IN  IF h.ok THEN read(h.val, os, disk) ELSE Unresolved(h, disk)

shortcut_write(d, value, plat, os, disk) ==
    LET h == resolve(d, plat, disk.fs)
    IN  IF h.ok THEN write(h.val, value, os, disk) ELSE Unresolved(h, disk)

shortcut_read_or_new(d, default, plat, os, disk) ==
    LET h == resolve(d, plat, disk.fs)
    IN  IF h.ok THEN read_or_new(h.val, default, os, disk)
        ELSE Unresolved(h, disk)

shortcut_read_or_default(d, plat, os, disk) ==
    LET h == resolve(d, plat, disk.fs)
    IN  IF h.ok THEN read_or_default(h.val, os, disk) ELSE Unresolved(h, disk)

\* ------------------------------------------------- DEFAULT_FILE_FORMAT

Enabled(features_, format) == format \in features_

\* The four items with the third lacking its not(feature = "json").
default_file_format_items_yaml_over_json(features_) ==
    SelectSeq(
        << [cfg |-> Enabled(features_, "Toml"), val |-> "Toml"],
           [cfg |-> /\ ~Enabled(features_, "Toml")
                    /\ Enabled(features_, "Json"), val |-> "Json"],
           [cfg |-> /\ Enabled(features_, "Yaml")
                    /\ ~Enabled(features_, "Toml"), val |-> "Yaml"],
           [cfg |-> /\ Enabled(features_, "Ron")
                    /\ ~(\/ Enabled(features_, "Toml")
                         \/ Enabled(features_, "Json")
                         \/ Enabled(features_, "Yaml")), val |-> "Ron"] >>,
        LAMBDA item : item.cfg)

\* The four `pub const DEFAULT_FILE_FORMAT` items, each under its cfg
\* attributes: those a build with the given features compiles.
default_file_format_items(features_) ==
    SelectSeq(
        << [cfg |-> Enabled(features_, "Toml"), val |-> "Toml"],
           [cfg |-> /\ ~Enabled(features_, "Toml")
                    /\ Enabled(features_, "Json"), val |-> "Json"],
           [cfg |-> /\ Enabled(features_, "Yaml")
                    /\ ~(\/ Enabled(features_, "Toml")
                         \/ Enabled(features_, "Json")), val |-> "Yaml"],
           [cfg |-> /\ Enabled(features_, "Ron")
                    /\ ~(\/ Enabled(features_, "Toml")
                         \/ Enabled(features_, "Json")
                         \/ Enabled(features_, "Yaml")), val |-> "Ron"] >>,
        LAMBDA item : item.cfg)

\* The constant a use of FileFormat::DEFAULT_FILE_FORMAT names.
DEFAULT_FILE_FORMAT(features_) == default_file_format_items(features_)[1].val

\* ConfigPathMetadata::with_default_format and ::no_default_format.
with_default_format(d, default_format) ==
    [d EXCEPT !.default_format = default_format]

no_default_format(d, features_) ==
    [d EXCEPT !.default_format = DEFAULT_FILE_FORMAT(features_)]

\* ConfigPathMetadata::new: the assert! on config_name, then the struct.
new(config_name, default_format, extra_folders, extra_files, config_option) ==
    IF config_name = <<>> THEN Err("panic")
    ELSE Ok([ config_name |-> config_name,
              default_format |-> default_format,
              extra_folders |-> extra_folders,
              extra_files |-> extra_files,
              config_option |-> config_option ])

\* ConfigPathMetadata::with_config_name and ::with_config_option.
with_config_name(d, config_name) == [d EXCEPT !.config_name = config_name]

with_config_option(d, config_option) ==
    [d EXCEPT !.config_option = config_option]

\* ---------------------------------------------------------------- inputs

App == <<"app">>

AppCfg == <<"app", "cfg">>

AltCfg == <<"alt", "cfg">>

\* The extra file of tests/test_config.rs, "<manifest dir>/conrig.cfg".
ConrigCfg == Path("ext", <<"conrig", "cfg">>)

\* The configured names are plain names: none begins with a dot, so none is
\* the dotted form of another.
NameLists == { <<App>>, <<AppCfg, AltCfg>>, <<App, AltCfg>> }

ConfigOptions ==
    [ allow_dot_prefix : BOOLEAN,
      sys_override_local : BOOLEAN,
      config_sys_type : {"Config"} ]

Descriptors ==
    [ config_name : NameLists,
      default_format : {"Toml", "Json"},
      extra_folders : { <<>>, <<"fold">> },
      extra_files : { <<>>, <<ConrigCfg>> },
      config_option : ConfigOptions ]

\* The descriptor of tests/test_config.rs, test_extra_cfg.
TEST_APP_CONFIG ==
    [ config_name |-> <<AppCfg>>,
      default_format |-> "Toml",
      extra_folders |-> <<>>,
      extra_files |-> <<ConrigCfg>>,
      config_option |-> [ allow_dot_prefix |-> TRUE,
                          sys_override_local |-> FALSE,
                          config_sys_type |-> "Config" ] ]

\* The files the environment may hold when a search runs.
SearchFiles ==
    { Path(d, n \o <<"toml">>) :
        d \in {"current_dir", "config_dir", "fold"},
        n \in {AppCfg, <<"">> \o AppCfg, AltCfg} }
    \cup { Path("current_dir", AppCfg \o <<"json">>),
           Path("current_dir", App \o <<"json">>),
           Path("ext", ConrigCfg.name \o <<"json">>),
           ConrigCfg }

\* The suffixes a file next to a base path may carry: none, the five
\* documented extensions, and "yaml.yml".
Suffixes ==
    { <<>>, <<"toml">>, <<"json">>, <<"yaml">>, <<"yml">>, <<"ron">>,
      <<"yaml", "yml">> }

\* The base paths detect_file_format is called with directly.
DetectBases == { Path("current_dir", App), Path("current_dir", AppCfg) }

DetectFiles == { Path(b.dir, b.name \o s) : b \in DetectBases, s \in Suffixes }

\* The literal path handed to fallback_path.
CustomPath == Path("custom", <<"my", "toml">>)

\* ------------------------------------------------------------------ state

\* fs: the paths File::open succeeds on.   desc: the ConfigPathMetadata.
\* platform: the platform's answers at the latest call.
\* raw: the RawConfigFile the caller holds (None: none).
\* file: the ConfigFile the caller holds (None: none).
\* op, ret: the latest operation and "Ok" or the error it returned.
\* det: the latest direct call of detect_file_format with its result.
\* dirs: the directories that exist.   data: the bytes of every file of fs.
\* arg, fault: the value handed to the latest read or write operation and
\* what the operating system did to its calls.
\* out: the value the latest operation returned (None: an error, or none).
\* trace: the file-system calls the latest read or write operation made.
\* callers: for each of the concurrent callers of SpecRace, the operation
\* it is in and its position in it.
\* features: the format features the crate is built with.

\* What the state holds before any read or write operation.
NoCall ==
    /\ arg = None
    /\ fault = None
    /\ out = None
    /\ trace = <<>>
    /\ callers = NoCallers

\* The disk before the environment or the program has written anything:
\* only the current directory exists.
EmptyDisk ==
    /\ fs = {}
    /\ dirs = {"current_dir"}
    /\ data = [p \in {} |-> <<>>]

Init ==
    /\ EmptyDisk
    /\ NoCall
    /\ features = FileFormat
    /\ desc \in Descriptors
    /\ platform = [home |-> TRUE, cwd |-> TRUE]
    /\ raw = None
    /\ file = None
    /\ op = "none"
    /\ ret = "none"
    /\ det = None

\* The environment creates a file before the program runs (std::fs::write
\* in the tests).
CreateFile(universe) ==
    /\ op = "none"
    /\ Cardinality(fs) < MaxFiles
    /\ \E p \in universe \ fs :
          /\ fs' = fs \cup {p}
          /\ dirs' = create_dir_all(p.dir, dirs)
          /\ data' = [q \in fs \cup {p} |-> IF q = p THEN <<>> ELSE data[q]]
    /\ UNCHANGED <<desc, platform, raw, file, op, ret, det,
                   arg, fault, out, trace, features, callers>>

SearchConfigFile ==
    \E plat \in Platforms :
        LET r == search_config_file(desc, plat, fs)
        IN  /\ platform' = plat
            /\ op' = "search_config_file"
            /\ ret' = IF r.ok THEN "Ok" ELSE r.err
            /\ raw' = IF r.ok THEN Some(r.val) ELSE None
            /\ file' = None
            /\ arg' = None
            /\ fault' = None
            /\ out' = None
            /\ trace' = <<>>
            /\ UNCHANGED <<fs, desc, det, dirs, data, features, callers>>

\* A fallback takes the RawConfigFile by value and yields a ConfigFile or
\* an error.
Fallback(name, r, plat) ==
    /\ platform' = plat
    /\ op' = name
    /\ ret' = IF r.ok THEN "Ok" ELSE r.err
    /\ file' = IF r.ok THEN Some(r.val) ELSE None
    /\ raw' = None
    /\ arg' = None
    /\ fault' = None
    /\ out' = None
    /\ trace' = <<>>
    /\ UNCHANGED <<fs, desc, det, dirs, data, features, callers>>

FallbackPath ==
    /\ raw.some
    /\ \E plat \in Platforms :
          Fallback("fallback_path", Ok(fallback_path(raw.val, CustomPath)), plat)

FallbackDefaultSys ==
    /\ raw.some
    /\ \E plat \in Platforms :
          Fallback("fallback_default_sys",
                   fallback_default_sys(raw.val, desc, plat), plat)

FallbackDefaultLocal ==
    /\ raw.some
    /\ \E plat \in Platforms :
          Fallback("fallback_default_local",
                   fallback_default_local(raw.val, desc, plat), plat)

FallbackDefault ==
    /\ raw.some
    /\ \E plat \in Platforms :
          Fallback("fallback_default",
                   fallback_default(raw.val, desc, plat), plat)

\* Searching: the environment prepares the files, the program searches.
Next ==
    \/ CreateFile(SearchFiles)
    \/ SearchConfigFile

Spec == Init /\ [][Next]_vars

\* ------------------------------------------------- search, then fallback

\* Every format, both kinds of system directory, names with and without an
\* extension.
FallbackDescriptors ==
    [ config_name : { <<App>>, <<AppCfg>>, <<AppCfg, AltCfg>> },
      default_format : FileFormat,
      extra_folders : { <<>> },
      extra_files : { <<>> },
      config_option : [ allow_dot_prefix : {TRUE},
                        sys_override_local : BOOLEAN,
                        config_sys_type : {"Config", "Preference"} ] ]

FallbackFiles ==
    { Path("current_dir", AppCfg \o <<"json">>),
      Path("config_dir", AppCfg \o <<"toml">>),
      Path("preference_dir", <<"">> \o AppCfg \o <<"ron">>) }

InitFallback ==
    /\ EmptyDisk
    /\ NoCall
    /\ features = FileFormat
    /\ desc \in FallbackDescriptors
    /\ platform = [home |-> TRUE, cwd |-> TRUE]
    /\ raw = None
    /\ file = None
    /\ op = "none"
    /\ ret = "none"
    /\ det = None

NextFallback ==
    \/ CreateFile(FallbackFiles)
    \/ SearchConfigFile
    \/ FallbackPath
    \/ FallbackDefaultSys
    \/ FallbackDefaultLocal
    \/ FallbackDefault

SpecFallback == InitFallback /\ [][NextFallback]_vars

\* ------------------------------------------- detect_file_format, directly

InitDetect ==
    /\ EmptyDisk
    /\ NoCall
    /\ features = FileFormat
    /\ desc = TEST_APP_CONFIG
    /\ platform = [home |-> TRUE, cwd |-> TRUE]
    /\ raw = None
    /\ file = None
    /\ op = "none"
    /\ ret = "none"
    /\ det = None

DetectFileFormat ==
    \E path \in DetectBases, default_format \in FileFormat :
        /\ det' = Some([path |-> path, default_format |-> default_format,
                        ret |-> detect_file_format(path, default_format, fs)])
        /\ op' = "detect_file_format"
        /\ UNCHANGED <<fs, desc, platform, raw, file, ret,
                       dirs, data, arg, fault, out, trace, features, callers>>

NextDetect ==
    \/ CreateFile(DetectFiles)
    \/ DetectFileFormat

SpecDetect == InitDetect /\ [][NextDetect]_vars

\* ------------------------------------------- reading and writing a handle

\* The paths of the handles: the default file of the system directory,
\* and the path handed to fallback_path.  Neither directory exists until
\* it is created.
SysFile == Path("config_dir", <<"app", "toml">>)

IoPaths == {SysFile, CustomPath}

\* What the environment puts into a file (std::fs::write): bytes that are
\* not UTF-8, a Json document, a Toml document.
EnvContents ==
    { <<"0xFF">>, encode("Json", <<"a">>), encode("Toml", <<"a", "b">>) }

\* The values handed to write and read_or_new.
Arguments == { <<"a">>, <<"a", "b">>, Unencodable }

FaultsOf(calls) == { f \in Faults : f.call \in calls }

Disk == [fs |-> fs, dirs |-> dirs, data |-> data]

InitIO ==
    /\ EmptyDisk
    /\ NoCall
    /\ features = FileFormat
    /\ desc = TEST_APP_CONFIG
    /\ platform = [home |-> TRUE, cwd |-> TRUE]
    /\ raw \in { Some(RawConfigFile(f, None)) : f \in FileFormat }
               \cup { Some(RawConfigFile(f, Some(SysFile))) :
                          f \in {"Toml", "Json"} }
    /\ file = None
    /\ op = "none"
    /\ ret = "none"
    /\ det = None

\* The environment writes a file before the program runs (std::fs::write
\* in tests/test_config.rs), its directory existing.
PutFile ==
    /\ op = "none"
    /\ Cardinality(fs) < MaxFiles
    /\ \E p \in IoPaths \ fs, bytes \in EnvContents :
          /\ fs' = fs \cup {p}
          /\ dirs' = create_dir_all(p.dir, dirs)
          /\ data' = [q \in fs \cup {p} |-> IF q = p THEN bytes ELSE data[q]]
    /\ UNCHANGED <<desc, platform, raw, file, op, ret, det,
                   arg, fault, out, trace, features, callers>>

\* An operation on a handle, borrowed: its result, its effect on the disk,
\* and the record of the call.
Operation(name, value, os, r) ==
    /\ op' = name
    /\ arg' = value
    /\ fault' = Some(os)
    /\ ret' = IF r.ret.ok THEN "Ok" ELSE r.ret.err
    /\ out' = IF r.ret.ok THEN Some(r.ret.val) ELSE None
    /\ trace' = r.trace
    /\ fs' = r.disk.fs
    /\ dirs' = r.disk.dirs
    /\ data' = r.disk.data
    /\ UNCHANGED <<desc, platform, raw, file, det, features, callers>>

ReadCalls == {"none", "open", "read_to_string"}

WriteCalls == {"none", "create_dir_all", "open", "write_all"}

AllCalls == ReadCalls \cup WriteCalls

RawRead ==
    /\ raw.some
    /\ \E os \in FaultsOf(ReadCalls) :
          Operation("raw_read", None, os, raw_read(raw.val, os, Disk))

RawWrite ==
    /\ raw.some
    /\ \E value \in Arguments, os \in FaultsOf(WriteCalls) :
          Operation("raw_write", Some(value), os,
                    raw_write(raw.val, value, os, Disk))

RawReadOrNew ==
    /\ raw.some
    /\ \E default \in Arguments, os \in FaultsOf(AllCalls) :
          Operation("raw_read_or_new", Some(default), os,
                    raw_read_or_new(raw.val, default, os, Disk))

RawReadOrDefault ==
    /\ raw.some
    /\ \E os \in FaultsOf(AllCalls) :
          Operation("raw_read_or_default", None, os,
                    raw_read_or_default(raw.val, os, Disk))

Read ==
    /\ file.some
    /\ \E os \in FaultsOf(ReadCalls) :
          Operation("read", None, os, read(file.val, os, Disk))

Write ==
    /\ file.some
    /\ \E value \in Arguments, os \in FaultsOf(WriteCalls) :
          Operation("write", Some(value), os, write(file.val, value, os, Disk))

ReadOrNew ==
    /\ file.some
    /\ \E default \in Arguments, os \in FaultsOf(AllCalls) :
          Operation("read_or_new", Some(default), os,
                    read_or_new(file.val, default, os, Disk))

ReadOrDefault ==
    /\ file.some
    /\ \E os \in FaultsOf(AllCalls) :
          Operation("read_or_default", None, os,
                    read_or_default(file.val, os, Disk))

NextIO ==
    \/ PutFile
    \/ RawRead
    \/ RawWrite
    \/ RawReadOrNew
    \/ RawReadOrDefault
    \/ FallbackPath
    \/ Read
    \/ Write
    \/ ReadOrNew
    \/ ReadOrDefault

SpecIO == InitIO /\ [][NextIO]_vars

\* ------------------------------------------------------- the shortcuts

\* A first name with two dots, whose default file is `app.cfg.<ext>`, the
\* file the probe of the second name looks for.
AppCfgX == <<"app", "cfg", "x">>

ShortcutDescriptors ==
    [ config_name : { <<App>>, <<AppCfg, AltCfg>>, <<AppCfgX, AppCfg>> },
      default_format : {"Toml"},
      extra_folders : { <<>> },
      extra_files : { <<>> },
      config_option : [ allow_dot_prefix : {TRUE},
                        sys_override_local : BOOLEAN,
                        config_sys_type : {"Config"} ] ]

\* The files the environment may have written before a shortcut runs.
ShortcutFiles ==
    { Path("current_dir", AppCfg \o <<"json">>),
      Path("config_dir", AppCfg \o <<"toml">>) }

\* What those files hold: a Json document, which the file named .toml
\* holds as well.
ShortcutContents == { encode("Json", <<"a", "b">>) }

\* What the operating system does to the calls of a shortcut.
ShortcutFaults ==
    FaultsOf({"none", "open"}) \cup {[call |-> "write_all", n |-> 1]}

InitShortcut ==
    /\ EmptyDisk
    /\ NoCall
    /\ features = FileFormat
    /\ desc \in ShortcutDescriptors
    /\ platform = [home |-> TRUE, cwd |-> TRUE]
    /\ raw = None
    /\ file = None
    /\ op = "none"
    /\ ret = "none"
    /\ det = None

PutShortcutFile ==
    /\ op = "none"
    /\ Cardinality(fs) < MaxFiles
    /\ \E p \in ShortcutFiles \ fs, bytes \in ShortcutContents :
          /\ fs' = fs \cup {p}
          /\ dirs' = create_dir_all(p.dir, dirs)
          /\ data' = [q \in fs \cup {p} |-> IF q = p THEN bytes ELSE data[q]]
    /\ UNCHANGED <<desc, platform, raw, file, op, ret, det,
                   arg, fault, out, trace, features, callers>>

\* A shortcut: the handle it resolves is a temporary, recorded in file.
Shortcut(name, value, plat, os, r) ==
    LET h == resolve(desc, plat, fs)
    IN  /\ op' = name
        /\ arg' = value
        /\ fault' = Some(os)
        /\ platform' = plat
        /\ file' = IF h.ok THEN Some(h.val) ELSE None
        /\ ret' = IF r.ret.ok THEN "Ok" ELSE r.ret.err
        /\ out' = IF r.ret.ok THEN Some(r.ret.val) ELSE None
        /\ trace' = r.trace
        /\ fs' = r.disk.fs
        /\ dirs' = r.disk.dirs
        /\ data' = r.disk.data
        /\ UNCHANGED <<desc, raw, det, features, callers>>

ShortcutRead ==
    \E plat \in Platforms, os \in FaultsOf({"none", "open"}) :
        Shortcut("shortcut_read", None, plat, os,
                 shortcut_read(desc, plat, os, Disk))

ShortcutWrite ==
    \E value \in Arguments, plat \in Platforms, os \in ShortcutFaults :
        Shortcut("shortcut_write", Some(value), plat, os,
                 shortcut_write(desc, value, plat, os, Disk))

ShortcutReadOrNew ==
    \E default \in Arguments, plat \in Platforms, os \in ShortcutFaults :
        Shortcut("shortcut_read_or_new", Some(default), plat, os,
                 shortcut_read_or_new(desc, default, plat, os, Disk))

ShortcutReadOrDefault ==
    \E plat \in Platforms, os \in ShortcutFaults :
        Shortcut("shortcut_read_or_default", None, plat, os,
                 shortcut_read_or_default(desc, plat, os, Disk))

NextShortcut ==
    \/ PutShortcutFile
    \/ ShortcutRead
    \/ ShortcutWrite
    \/ ShortcutReadOrNew
    \/ ShortcutReadOrDefault

SpecShortcut == InitShortcut /\ [][NextShortcut]_vars

\* ------------------------------------------------------------ the builds

\* Every build the crate compiles in: at least one format feature.
Builds == (SUBSET FileFormat) \ {{}}

InitBuild ==
    /\ EmptyDisk
    /\ NoCall
    /\ features \in Builds
    /\ desc \in { d \in FallbackDescriptors : d.default_format \in features }
    /\ platform = [home |-> TRUE, cwd |-> TRUE]
    /\ raw = None
    /\ file = None
    /\ op = "none"
    /\ ret = "none"
    /\ det = None

Build(name, d) ==
    /\ op' = name
    /\ desc' = d
    /\ UNCHANGED <<fs, platform, raw, file, ret, det,
                   dirs, data, arg, fault, out, trace, features, callers>>

WithDefaultFormat ==
    \E default_format \in features :
        Build("with_default_format", with_default_format(desc, default_format))

NoDefaultFormat == Build("no_default_format", no_default_format(desc, features))

NextBuild ==
    \/ WithDefaultFormat
    \/ NoDefaultFormat

SpecBuild == InitBuild /\ [][NextBuild]_vars

\* ------------------------------------------- callers sharing a handle

\* The values the callers write and create with: two whose documents
\* differ in length and in their second piece.
RaceValues == { <<"a", "b">>, <<"b">> }

\* The operations a caller may begin, each with the call it starts at.
RaceCalls ==
    { [op |-> "write", arg |-> Some(v), pc |-> "create_dir_all"] :
        v \in RaceValues \cup {Unencodable} }
    \cup { [op |-> "read_or_new", arg |-> Some(v), pc |-> "exists"] :
              v \in RaceValues }
    \cup { [op |-> "read", arg |-> None, pc |-> "open"] }

\* Two callers hold the same ConfigFile, a Toml or a Json one, whose file
\* does not exist yet.
InitRace ==
    /\ EmptyDisk
    /\ NoCall
    /\ features = FileFormat
    /\ desc = TEST_APP_CONFIG
    /\ platform = [home |-> TRUE, cwd |-> TRUE]
    /\ raw = None
    /\ file \in { Some(ConfigFile(f, CustomPath)) : f \in {"Toml", "Json"} }
    /\ op = "none"
    /\ ret = "none"
    /\ det = None

\* A caller begins an operation: it overlaps the operations that are
\* running, and they overlap it.
Begin(c) ==
    /\ ~Running(callers[c])
    /\ \E call \in RaceCalls :
          callers' =
              [o \in Callers |->
                  IF o = c
                  THEN [ op |-> call.op, arg |-> call.arg, pc |-> call.pc,
                         off |-> 0, got |-> <<>>, ret |-> None,
                         alone |-> \A x \in Callers \ {c} :
                                      ~Running(callers[x]),
                         fresh |-> file.val.path \notin fs,
                         branch |-> "none" ]
                  ELSE IF Running(callers[o])
                  THEN [callers[o] EXCEPT !.alone = FALSE]
                  ELSE callers[o]]
    /\ UNCHANGED <<fs, desc, platform, raw, file, op, ret, det,
                   dirs, data, arg, fault, out, trace, features>>

\* A caller makes its next call: r is the caller and the disk after it.
Step(c, r) ==
    /\ callers' = [callers EXCEPT ![c] = r.t]
    /\ fs' = r.disk.fs
    /\ dirs' = r.disk.dirs
    /\ data' = r.disk.data
    /\ UNCHANGED <<desc, platform, raw, file, op, ret, det,
                   arg, fault, out, trace, features>>

PathExists(c) ==
    /\ callers[c].pc = "exists"
    /\ Step(c, step_exists(file.val, callers[c], Disk))

CreateDirAll(c) ==
    /\ callers[c].pc \in {"new_create_dir_all", "create_dir_all"}
    /\ Step(c, step_create_dir_all(file.val, callers[c], Disk))

OpenWrite(c) ==
    /\ callers[c].pc = "open_write"
    /\ Step(c, step_open_write(file.val, callers[c], Disk))

FormatWrite(c) ==
    /\ callers[c].pc = "format_write"
    /\ Step(c, step_format_write(file.val, callers[c], Disk))

ToWriter(c) ==
    /\ callers[c].pc = "to_writer"
    /\ Step(c, step_to_writer(file.val, callers[c], Disk))

Open(c) ==
    /\ callers[c].pc = "open"
    /\ Step(c, step_open(file.val, callers[c], Disk))

ReadToString(c) ==
    /\ callers[c].pc = "read_to_string"
    /\ Step(c, step_read_to_string(file.val, callers[c], Disk))

NextRace ==
    \E c \in Callers :
        \/ Begin(c)
        \/ PathExists(c)
        \/ CreateDirAll(c)
        \/ OpenWrite(c)
        \/ FormatWrite(c)
        \/ ToWriter(c)
        \/ Open(c)
        \/ ReadToString(c)

SpecRace == InitRace /\ [][NextRace]_vars

\* ------------------------------------------------------ the constructions

\* The name lists a caller may hand over: the empty one among them.
ConstructNames == { <<>>, <<App>>, <<AppCfg, AltCfg>> }

ConstructOptions ==
    [ allow_dot_prefix : {TRUE},
      sys_override_local : BOOLEAN,
      config_sys_type : {"Config"} ]

\* The descriptor starts as the result of a call of new that returned.
InitConstruct ==
    /\ EmptyDisk
    /\ NoCall
    /\ features = FileFormat
    /\ desc \in { new(n, "Toml", <<>>, <<>>, o).val :
                     n \in ConstructNames \ {<<>>}, o \in ConstructOptions }
    /\ platform = [home |-> TRUE, cwd |-> TRUE]
    /\ raw = None
    /\ file = None
    /\ op = "none"
    /\ ret = "none"
    /\ det = None

\* A constructor or builder call: the descriptor it yields, or the panic
\* that leaves the caller with the descriptor it had.
Construct(name, r) ==
    /\ op' = name
    /\ ret' = IF r.ok THEN "Ok" ELSE r.err
    /\ desc' = IF r.ok THEN r.val ELSE desc
    /\ UNCHANGED <<fs, platform, raw, file, det,
                   dirs, data, arg, fault, out, trace, features, callers>>

New ==
    \E n \in ConstructNames, f \in FileFormat, o \in ConstructOptions :
        Construct("new", new(n, f, <<>>, <<>>, o))

\* A struct literal, which is what conrig! expands to: every field is pub.
StructLiteral ==
    \E n \in ConstructNames, f \in FileFormat, o \in ConstructOptions :
        Construct("conrig!",
                  Ok([ config_name |-> n, default_format |-> f,
                       extra_folders |-> <<>>, extra_files |-> <<>>,
                       config_option |-> o ]))

WithConfigName ==
    \E n \in ConstructNames :
        Construct("with_config_name", Ok(with_config_name(desc, n)))

WithConfigOption ==
    \E o \in ConstructOptions :
        Construct("with_config_option", Ok(with_config_option(desc, o)))

\* A call that formats a default path, on the descriptor as it is.
DefaultPath(name, r, plat) ==
    /\ op' = name
    /\ platform' = plat
    /\ ret' = IF r.ok THEN "Ok" ELSE r.err
    /\ UNCHANGED <<fs, desc, raw, file, det,
                   dirs, data, arg, fault, out, trace, features, callers>>

DefaultSysConfigFile ==
    \E plat \in Platforms :
        DefaultPath("default_sys_config_file",
                    default_sys_config_file(desc, plat), plat)

DefaultLocalConfigFile ==
    \E plat \in Platforms :
        DefaultPath("default_local_config_file",
                    default_local_config_file(desc, plat), plat)

\* fallback_default on the handle of a search that found nothing.
DefaultOfUnresolved ==
    \E plat \in Platforms :
        DefaultPath("fallback_default",
                    fallback_default(RawConfigFile(desc.default_format, None),
                                     desc, plat), plat)

NextConstruct ==
    \/ New
    \/ StructLiteral
    \/ WithConfigName
    \/ WithConfigOption
    \/ WithDefaultFormat
    \/ DefaultSysConfigFile
    \/ DefaultLocalConfigFile
    \/ DefaultOfUnresolved

SpecConstruct == InitConstruct /\ [][NextConstruct]_vars

\* ----------------------------------------------------- the claims' terms

\* The latest operation was a search that succeeded, so raw holds its result.
Searched == op = "search_config_file" /\ ret = "Ok"

\* The documented probing order of the extensions, and the format of each.
ExtOrder == <<"toml", "json", "yaml", "yml", "ron">>

FormatOfExt(e) ==
    CASE e = "toml" -> "Toml"
      [] e = "json" -> "Json"
      [] e \in {"yaml", "yml"} -> "Yaml"
      [] e = "ron" -> "Ron"

\* The file `<base>.<e>`.
WithExt(base, e) == Path(base.dir, base.name \o <<e>>)

\* The places of ExtOrder whose file exists next to base.
ExtsPresent(base) == { i \in 1..Len(ExtOrder) : WithExt(base, ExtOrder[i]) \in fs }

FirstExt(base) ==
    ExtOrder[CHOOSE i \in ExtsPresent(base) : \A j \in ExtsPresent(base) : i <= j]

\* The files that are base itself or base with something appended.
FilesOf(base) ==
    { f \in fs : /\ f.dir = base.dir
                 /\ Len(f.name) >= Len(base.name)
                 /\ SubSeq(f.name, 1, Len(base.name)) = base.name }

\* What probing the candidate c finds in the present files.
Hit(c) == detect_file_format(c, desc.default_format, fs)

\* The paths found by probing the candidates of the sequence g.
GroupHits(g) == { Hit(g[i]).val.path : i \in { k \in DOMAIN g : Hit(g[k]).some } }

SysDir == sys_dir(desc.config_option.config_sys_type, platform).val

FirstRoot ==
    IF desc.config_option.sys_override_local THEN SysDir ELSE "current_dir"

SecondRoot ==
    IF desc.config_option.sys_override_local THEN "current_dir" ELSE SysDir

\* The candidates of directory d, as the search is specified to list them.
DirGroup(d) ==
    make_paths(d, desc.config_name, desc.config_option.allow_dot_prefix)

RECURSIVE Concat(_)
Concat(ss) == IF ss = <<>> THEN <<>> ELSE Head(ss) \o Concat(Tail(ss))

\* The four groups in the claimed order.
Groups ==
    << desc.extra_files,
       Concat([i \in DOMAIN desc.extra_folders |-> DirGroup(desc.extra_folders[i])]),
       DirGroup(FirstRoot),
       DirGroup(SecondRoot) >>

Flipped ==
    [desc EXCEPT !.config_option.sys_override_local =
                     ~desc.config_option.sys_override_local]

\* --------------------------------------------------------------------- C1

SearchedDirs ==
    { desc.extra_folders[i] : i \in DOMAIN desc.extra_folders }
    \cup {FirstRoot, SecondRoot}

\* The stem of the i-th name in directory d, dotted or not.
Stem(d, i, dotted) ==
    Path(d, IF dotted THEN <<"">> \o desc.config_name[i] ELSE desc.config_name[i])

\* The stems of a directory: every name, and its dotted form when allowed.
StemIds ==
    { <<i, dotted>> : i \in DOMAIN desc.config_name, dotted \in BOOLEAN }
    \ { <<i, TRUE>> : i \in { k \in DOMAIN desc.config_name :
                               ~desc.config_option.allow_dot_prefix } }

\* Stem a is tried before stem b: an earlier name, or the same name undotted.
Before(a, b) == a[1] < b[1] \/ (a[1] = b[1] /\ ~a[2] /\ b[2])

RootsOfFirstName ==
    {FirstRoot}
    \cup { r \in {SecondRoot} : \A f \in fs : f.dir # FirstRoot }

\* C3: after a successful search with no file in any extra location, when
\* `<root>/<config_name[0]>.<ext>` exists for a supported extension the
\* result is that file (of the first such extension) with the format of the
\* extension.
C3_FirstNameResolved ==
    (Searched /\ \A f \in fs : f.dir \in {FirstRoot, SecondRoot}) =>
        \A r \in RootsOfFirstName :
            LET base == Path(r, desc.config_name[1])
            IN  ExtsPresent(base) # {} =>
                    raw.val = RawConfigFile(FormatOfExt(FirstExt(base)),
                                            Some(WithExt(base, FirstExt(base))))

\* --------------------------------------------------------------------- C5

\* The candidates the search probes, in order.
Candidates == search_sequence(desc, SysDir, "current_dir")

IsDotted(f) ==
    \E i \in DOMAIN desc.config_name :
        LET dotted == <<"">> \o desc.config_name[i]
        IN  /\ Len(f.name) >= Len(dotted)
            /\ SubSeq(f.name, 1, Len(dotted)) = dotted

\* C8: with allow_dot_prefix false, a successful search returns no file of
\* a root or extra folder whose name is the dotted form of a configured
\* name, and when every existing file is such a file it returns path None.
C8_NoDotPrefix ==
    (Searched /\ ~desc.config_option.allow_dot_prefix) =>
        /\ raw.val.path.some =>
              ~(raw.val.path.val.dir \in SearchedDirs /\ IsDotted(raw.val.path.val))
        /\ (\A f \in fs : f.dir \in SearchedDirs /\ IsDotted(f))
              => ~raw.val.path.some

\* Only a dotted file exists, the search with allow_dot_prefix false
\* returned path None, and the same search allowing the dot finds the file.
C8_Witness ==
    /\ Searched
    /\ ~desc.config_option.allow_dot_prefix
    /\ fs # {}
    /\ \A f \in fs : f.dir \in SearchedDirs /\ IsDotted(f)
    /\ ~raw.val.path.some
    /\ search_config_file(
           [desc EXCEPT !.config_option.allow_dot_prefix = TRUE],
           platform, fs).val.path.some

\* --------------------------------------------------------------------- C4

\* C4: a direct call of detect_file_format on a base path next to which a
\* file `<base>.<ext>` exists for some ext of toml, json, yaml, yml, ron
\* returns the file of the first such ext with the format of that ext.
C4_ExtensionOrder ==
    det.some =>
        LET base == det.val.path
        IN  ExtsPresent(base) # {} =>
                det.val.ret = Some([path |-> WithExt(base, FirstExt(base)),
                                    file_format |-> FormatOfExt(FirstExt(base))])

\* --------------------------------------------------------------------- C6

\* C6: when `<base>.yml` is the only existing file for a base path, a direct
\* call of detect_file_format returns it with format Yaml; and the extension
\* of Yaml is "yaml".
C6_YmlIsYaml ==
    /\ extension("Yaml") = "yaml"
    /\ det.some =>
          LET base == det.val.path
          IN  FilesOf(base) = {WithExt(base, "yml")} =>
                  det.val.ret = Some([path |-> WithExt(base, "yml"),
                                      file_format |-> "Yaml"])

\* --------------------------------------------------------------------- C7

\* C7: for a base path that carries an extension, a direct call of
\* detect_file_format returns the literal base path with the fallback format
\* when it exists and none of `<base>.toml/.json/.yaml/.yml/.ron` does,
\* None when neither it nor any of them exists, and never the literal path
\* when one of them exists.
C7_LiteralFallback ==
    (det.some /\ PathExtension(det.val.path).some) =>
        LET base == det.val.path
        IN  /\ (ExtsPresent(base) = {} /\ base \in fs)
                  => det.val.ret = Some([path |-> base,
                                         file_format |-> det.val.default_format])
            /\ (ExtsPresent(base) = {} /\ base \notin fs)
                  => det.val.ret = None
            /\ (ExtsPresent(base) # {} /\ base \in fs)
                  => /\ det.val.ret.some
                     /\ det.val.ret.val.path # base

\* --------------------------------------------------------------------- C9

FallbackOps ==
    {"fallback_path", "fallback_default_sys", "fallback_default_local",
     "fallback_default"}

\* C9: a fallback applied to a handle whose path is Some(p) returns Ok with
\* a ConfigFile of path p and the handle's format, whatever the platform
\* answers; fallback_path applied to a handle whose path is None yields the
\* supplied path.
C9_FallbackKeepsPath ==
    [][ (raw.some /\ op' \in FallbackOps) =>
            /\ raw.val.path.some =>
                  /\ ret' = "Ok"
                  /\ file' = Some(ConfigFile(raw.val.file_format,
                                             raw.val.path.val))
            /\ (~raw.val.path.some /\ op' = "fallback_path") =>
                  file' = Some(ConfigFile(raw.val.file_format, CustomPath))
      ]_vars

\* A default fallback returned a ConfigFile although the platform gave no
\* root for the default path: the handle's own path was used.
C9_Witness ==
    \/ /\ op = "fallback_default_sys"
       /\ ~platform.home
       /\ ret = "Ok"
       /\ file.some
       /\ file.val.path \in fs
    \/ /\ op = "fallback_default_local"
       /\ ~platform.cwd
       /\ ret = "Ok"
       /\ file.some
       /\ file.val.path \in fs

\* -------------------------------------------------------------------- C10

\* The root the search consults first, from the order of its candidates.
FirstSearchedDir(plat) ==
    root_paths(desc, sys_dir(desc.config_option.config_sys_type, plat).val,
               current_dir(plat).val)[1].dir

\* C10: fallback_default applied to a handle whose path is None, when it
\* succeeds, yields default_sys_config_file's path if sys_override_local is
\* true and default_local_config_file's path if it is false, and that path
\* lies in the root the search consults first.
C10_DefaultFollowsOverride ==
    [][ (raw.some /\ ~raw.val.path.some /\ op' = "fallback_default"
         /\ ret' = "Ok") =>
            /\ Ok(file'.val.path) =
                  IF desc.config_option.sys_override_local
                  THEN default_sys_config_file(desc, platform')
                  ELSE default_local_config_file(desc, platform')
            /\ Ok(file'.val.path) = default_config_file(desc, platform')
            /\ platform' = [home |-> TRUE, cwd |-> TRUE] =>
                  file'.val.path.dir = FirstSearchedDir(platform')
      ]_vars

\* fallback_default put an unresolved handle at the system default path of
\* a descriptor with sys_override_local true.
C10_Witness ==
    /\ op = "fallback_default"
    /\ ret = "Ok"
    /\ desc.config_option.sys_override_local
    /\ file.some
    /\ file.val.path \notin fs
    /\ Ok(file.val.path) = default_sys_config_file(desc, platform)
    /\ file.val.path.dir = "preference_dir"

\* -------------------------------------------------------------------- C11

\* The first configured name with the default format's extension appended.
FirstNameWithDefaultExt ==
    desc.config_name[1] \o <<extension(desc.default_format)>>

\* C11: a default fallback applied to a handle whose path is None, when it
\* succeeds, yields `<current directory>/<config_name[0]>.<extension of
\* default_format>` for fallback_default_local and `<system root>/
\* <config_name[0]>.<extension of default_format>` for fallback_default_sys,
\* the whole first name being kept also when it contains a dot.
C11_DefaultPaths ==
    [][ (raw.some /\ ~raw.val.path.some /\ ret' = "Ok") =>
            /\ op' = "fallback_default_local" =>
                  file'.val.path = Path("current_dir", FirstNameWithDefaultExt)
            /\ op' = "fallback_default_sys" =>
                  file'.val.path =
                      Path(sys_dir(desc.config_option.config_sys_type,
                                   platform').val,
                           FirstNameWithDefaultExt)
      ]_vars

\* -------------------------------------------------------------------- C19

\* C19: a search made when the platform gives no system root for the
\* selected config_sys_type returns FileSystemError::NoProjectDirectory and
\* no handle, whatever the descriptor and the files, also when the current
\* directory is missing as well.
C19_NoProjectDirectory ==
    /\ (/\ op = "search_config_file"
         /\ ~sys_dir(desc.config_option.config_sys_type, platform).some)
          => /\ ret = "NoProjectDirectory"
             /\ raw = None
    /\ \A cwd \in BOOLEAN :
          search_config_file(desc, [home |-> FALSE, cwd |-> cwd], fs)
              = Err("NoProjectDirectory")

\* The search failed for want of a system root although sys_override_local
\* is false and, given a system root, it finds an extra file or a file of an
\* extra folder or of the current directory.
C19_Witness ==
    /\ op = "search_config_file"
    /\ ~platform.home
    /\ ret = "NoProjectDirectory"
    /\ ~desc.config_option.sys_override_local
    /\ LET r == search_config_file(desc, [home |-> TRUE, cwd |-> TRUE], fs).val
       IN  /\ r.path.some
           /\ r.path.val.dir \in {"ext", "fold", "current_dir"}

\* -------------------------------------------------------------------- C12

RawOps == {"raw_read", "raw_write", "raw_read_or_new", "raw_read_or_default"}

\* C12: read, write, read_or_new and read_or_default on a RawConfigFile
\* whose path is None return NoConfigurationFile and no value, make no
\* file-system call, and leave the files, their bytes and the directories
\* as they were.
C12_UnresolvedFails ==
    [][ (raw.some /\ ~raw.val.path.some /\ op' \in RawOps) =>
            /\ ret' = "NoConfigurationFile"
            /\ out' = None
            /\ trace' = <<>>
            /\ fs' = fs
            /\ dirs' = dirs
            /\ data' = data
      ]_vars

\* write was called on a handle without a path while a file exists, and
\* failed with NoConfigurationFile.
C12_Witness ==
    /\ op = "raw_write"
    /\ raw.some
    /\ ~raw.val.path.some
    /\ ret = "NoConfigurationFile"
    /\ arg \in { Some(v) : v \in Values }
    /\ fs # {}
    /\ "config_dir" \notin dirs

\* -------------------------------------------------------------------- C13

\* The handle an operation borrows: the RawConfigFile for the raw_
\* operations, the ConfigFile for the others.
HasTarget(o) == IF o \in RawOps THEN raw.some /\ raw.val.path.some ELSE file.some

Target(o) ==
    IF o \in RawOps
    THEN ConfigFile(raw.val.file_format, raw.val.path.val)
    ELSE file.val

\* The calls that open a file for reading or read it.
ReadingCalls == {"open", "read_to_string", "read_str"}

\* C13: read_or_new(default) on a path that does not exist, for a default
\* the format can encode and with no call failing, returns Ok(default),
\* leaves the parent directory and its ancestors existing, adds exactly the
\* file at the path, holding the encoding of default in the handle's
\* format, changes no other file, and makes no call that opens or reads a
\* file.
C13_CreatesAndReturnsDefault ==
    [][ (/\ op' \in {"read_or_new", "raw_read_or_new"}
         /\ HasTarget(op')
         /\ Target(op').path \notin fs
         /\ fault'.val.call = "none"
         /\ Representable(arg'.val)) =>
            LET h == Target(op')
            IN  /\ ret' = "Ok"
                /\ out' = arg'
                /\ fs' = fs \cup {h.path}
                /\ data'[h.path] = encode(h.file_format, arg'.val)
                /\ \A q \in fs : data'[q] = data[q]
                /\ dirs \subseteq dirs'
                /\ h.path.dir \in dirs'
                /\ dir_parent(h.path.dir).some
                      => dir_parent(h.path.dir).val \in dirs'
                /\ \A i \in DOMAIN trace' : trace'[i].call \notin ReadingCalls
      ]_vars

\* read_or_new created the file of the system directory, and the directory
\* with its parent, neither of which existed before any file was written
\* there, and returned its argument.
C13_Witness ==
    /\ op = "read_or_new"
    /\ ret = "Ok"
    /\ file.val.path = SysFile
    /\ trace[1] = Call("exists", FALSE)
    /\ out = arg
    /\ arg = Some(<<"a", "b">>)
    /\ {"config_dir", "config_home"} \subseteq dirs
    /\ fs = {SysFile}
    /\ data[SysFile] = encode(file.val.file_format, <<"a", "b">>)

\* -------------------------------------------------------------------- C14

\* C14: read_or_new(default) on a path that exists returns what read
\* returns on the same files under the same behaviour of the operating
\* system, the value or the error, whatever default is, and leaves the
\* files, their bytes and the directories as they were.
C14_ExistingBehavesAsRead ==
    [][ (/\ op' \in {"read_or_new", "raw_read_or_new"}
         /\ HasTarget(op')
         /\ Target(op').path \in fs) =>
            LET r == read(Target(op'), fault'.val, Disk)
            IN  /\ ret' = IF r.ret.ok THEN "Ok" ELSE r.ret.err
                /\ out' = IF r.ret.ok THEN Some(r.ret.val) ELSE None
                /\ fs' = fs
                /\ dirs' = dirs
                /\ data' = data
      ]_vars

\* read_or_new on an existing file returned the file's value, which is not
\* the default it was given.
C14_Witness ==
    /\ op = "read_or_new"
    /\ file.val.path \in fs
    /\ trace[1] = Call("exists", TRUE)
    /\ ret = "Ok"
    /\ out # arg
    /\ out = Some(<<"a", "b">>)

\* -------------------------------------------------------------------- C15

\* C15: a read on a ConfigFile that directly follows a successful write of
\* a value on the same ConfigFile, the operating system failing no call of
\* the read, returns Ok with that value, for each of the four formats and
\* whatever the file held before the write.
C15_RoundTrip ==
    [][ (/\ op = "write"
         /\ ret = "Ok"
         /\ op' = "read"
         /\ fault'.val.call = "none") =>
            /\ ret' = "Ok"
            /\ out' = arg
      ]_vars

\* A read returned the value of a Yaml document, which only a write of the
\* handle can have put into the file.
C15_Witness ==
    /\ op = "read"
    /\ ret = "Ok"
    /\ fault.val.call = "none"
    /\ file.val.file_format = "Yaml"
    /\ out = Some(<<"a">>)
    /\ data[file.val.path] = encode("Yaml", <<"a">>)

\* -------------------------------------------------------------------- C17

\* The bytes are a document of the format.
IsDocument(format, bytes) == \E v \in Values : bytes = encode(format, v)

\* C17: a read on a ConfigFile that fails returns OpenConfig exactly when
\* opening the file failed, ReadConfig exactly when reading the opened
\* file into a string failed, and LangError exactly when the text read is
\* not a document of the handle's format; a missing file gives OpenConfig,
\* a failure of the operating system never gives LangError, and text that
\* is not a document gives LangError when the system fails no call.
C17_ReadErrors ==
    (op = "read" /\ ret # "Ok") =>
        LET last == trace[Len(trace)]
            p == file.val.path
        IN  /\ ret \in {"OpenConfig", "ReadConfig", "LangError"}
            /\ ~last.ok
            /\ ret = "OpenConfig" <=> last.call = "open"
            /\ ret = "ReadConfig" <=> last.call = "read_to_string"
            /\ ret = "LangError" <=> last.call = "read_str"
            /\ p \notin fs => ret = "OpenConfig"
            /\ fault.val.call # "none" => ret # "LangError"
            /\ ret = "LangError" =>
                  /\ p \in fs
                  /\ IsUtf8(data[p])
                  /\ ~IsDocument(file.val.file_format, data[p])
            /\ (/\ p \in fs
                 /\ IsUtf8(data[p])
                 /\ ~IsDocument(file.val.file_format, data[p])
                 /\ fault.val.call = "none") => ret = "LangError"
            /\ ret \in {"OpenConfig", "ReadConfig"} =>
                  \/ p \notin fs
                  \/ fault.val.call # "none"
                  \/ ~IsUtf8(data[p])

\* A read of a Toml handle, no call failing, found a Json document and
\* returned LangError.
C17_Witness ==
    /\ op = "read"
    /\ ret = "LangError"
    /\ fault.val.call = "none"
    /\ file.val.file_format = "Toml"
    /\ data[file.val.path] = encode("Json", <<"a">>)

\* -------------------------------------------------------------------- C18

FileSystemErrors == {"OpenConfig", "ReadConfig", "WriteConfig", "NoProjectDirectory"}

\* The error the same write returns when the named call fails.
WriteFailure(call) ==
    write(file.val, arg.val, [call |-> call, n |-> 0], Disk).ret.err

\* C18: a write of an encodable value during which writing the bytes fails
\* returns a FileSystemError that is neither the error the write returns
\* when create_dir_all fails nor the one it returns when opening the file
\* fails, and these two differ, for each format.
C18_WriteErrors ==
    (/\ op = "write"
     /\ Representable(arg.val)
     /\ fault.val.call \in {"create_dir_all", "open", "write_all"}) =>
        /\ ret # "Ok"
        /\ WriteFailure("create_dir_all") # WriteFailure("open")
        /\ WriteFailure("create_dir_all") # WriteFailure("write_all")
        /\ WriteFailure("open") # WriteFailure("write_all")
        /\ WriteFailure("write_all") \in FileSystemErrors
        /\ ret = WriteFailure(fault.val.call)

\* -------------------------------------------------------------------- C16

\* C16: a ConfigPathMetadata::read that directly follows a successful
\* ConfigPathMetadata::write of a value, the platform answering as before
\* and the operating system failing no call, resolves the path and the
\* format the write resolved and returns Ok with that value; and a
\* read_or_default that directly follows a successful read_or_default,
\* under the same conditions, returns the same value.
C16_ShortcutRoundTrip ==
    [][ /\ (/\ op = "shortcut_write"
             /\ ret = "Ok"
             /\ op' = "shortcut_read"
             /\ platform' = platform
             /\ fault'.val.call = "none") =>
                /\ file' = file
                /\ ret' = "Ok"
                /\ out' = arg
        /\ (/\ op = "shortcut_read_or_default"
             /\ ret = "Ok"
             /\ op' = "shortcut_read_or_default"
             /\ platform' = platform
             /\ fault'.val.call = "none") =>
                /\ file' = file
                /\ ret' = "Ok"
                /\ out' = out
      ]_vars

\* A read returned a value from a file that was found by the search, not
\* put there by the environment: the default file of a first name with two
\* dots, found through the second name.
C16_Witness ==
    /\ op = "shortcut_read"
    /\ ret = "Ok"
    /\ desc.config_name[1] = AppCfgX
    /\ file.val.path.name = AppCfg \o <<extension(desc.default_format)>>
    /\ search_config_file(desc, platform, fs).val.path = Some(file.val.path)
    /\ out = Some(<<"a">>)

\* -------------------------------------------------------------------- C20

\* The order of preference among the formats.
FormatOrder == <<"Toml", "Json", "Yaml", "Ron">>

FirstEnabled ==
    FormatOrder[CHOOSE i \in 1..4 :
                    /\ FormatOrder[i] \in features
                    /\ \A j \in 1..(i - 1) : FormatOrder[j] \notin features]

\* C20: in every build with at least one format feature exactly one
\* DEFAULT_FILE_FORMAT item is compiled, its value is the first enabled
\* format in the order Toml, Json, Yaml, Ron, and no_default_format sets
\* the descriptor's default_format to it.
C20_DefaultFileFormat ==
    /\ Len(default_file_format_items(features)) = 1
    /\ DEFAULT_FILE_FORMAT(features) = FirstEnabled
    /\ op = "no_default_format" => desc.default_format = FirstEnabled

\* A build with Json, Yaml and Ron but not Toml, where no_default_format
\* has set Json.
C20_Witness ==
    /\ op = "no_default_format"
    /\ features = {"Json", "Yaml", "Ron"}
    /\ desc.default_format = "Json"

\* -------------------------------------------------------------------- C21

\* The latest call formatted a default path.
DefaultPathOps ==
    {"default_sys_config_file", "default_local_config_file", "fallback_default"}

\* C21: every descriptor the construction calls yield has a non-empty
\* config_name, and no call that formats a default path panics on indexing
\* it.
C21_NonEmptyConfigName ==
    /\ desc.config_name # <<>>
    /\ op \in DefaultPathOps => ret # "panic"

\* -------------------------------------------------------------------- C22

ConfigFileOps == {"read", "write", "read_or_new", "read_or_default"}

\* The files other than p are the same before and after the step, and no
\* directory is created but those leading to p.
OnlyTouches(p) ==
    /\ fs' \ {p} = fs \ {p}
    /\ \A q \in fs \ {p} : data'[q] = data[q]
    /\ fs \subseteq fs'
    /\ dirs' \in {dirs, create_dir_all(p.dir, dirs)}

\* C22: a handle gets its path by one fallback call on an unresolved
\* location and keeps it: no read, write, read_or_new or read_or_default,
\* successful or failed, changes the path or the format of the ConfigFile,
\* and each of them acts on the file at that path only.
C22_PathNeverReverts ==
    [][ /\ file.some => file' = file
        /\ (~file.some /\ file'.some) => (raw.some /\ op' = "fallback_path")
        /\ (file.some /\ op' \in ConfigFileOps) => OnlyTouches(file.val.path)
      ]_vars

\* C22: a Json handle on the system file has written it, after a failed
\* operation on it, and the other file is as the environment left it.
C22_Witness ==
    /\ file = Some(ConfigFile("Json", SysFile))
    /\ op = "write"
    /\ ret = "Ok"
    /\ data[SysFile] = encode("Json", <<"a", "b">>)
    /\ CustomPath \in fs
    /\ data[CustomPath] = <<"0xFF">>

\* -------------------------------------------------------------------- C25

\* The latest operation was a write that got as far as FileFormat::write:
\* the file was opened and truncated, so what it holds is what the sink
\* has received.
ReachedFormatWrite ==
    /\ op \in {"write", "raw_write"}
    /\ HasTarget(op)
    /\ \E i \in DOMAIN trace : trace[i] = Call("open_write", TRUE)

Sink == data[Target(op).path]

\* The positions of the calls of the given name in the trace.
CallsOf(name) == { i \in DOMAIN trace : trace[i].call = name }

\* C25, as claimed: for every format, a value the format cannot encode
\* leaves the sink with zero bytes, and a value it can encode, the sink not
\* failing, leaves it with the complete document.
C25_NoPartialOutput ==
    ReachedFormatWrite =>
        /\ ~Representable(arg.val) => Sink = <<>>
        /\ (Representable(arg.val) /\ fault.val.call # "write_all") =>
               Sink = encode(Target(op).file_format, arg.val)

\* C25, amended: for Toml and Ron, a value the format cannot encode leaves
\* the sink with zero bytes and write_all uncalled, and a value it can
\* encode is handed to the sink by one write_all that follows the
\* serialization, the sink holding the complete document unless that
\* write_all fails.
C25_BufferedFormats ==
    (ReachedFormatWrite /\ Target(op).file_format \in {"Toml", "Ron"}) =>
        /\ ~Representable(arg.val) =>
               /\ Sink = <<>>
               /\ CallsOf("write_all") = {}
               /\ ret = "LangError"
        /\ Representable(arg.val) =>
               /\ Cardinality(CallsOf("write_all")) = 1
               /\ \A i \in CallsOf("serialize"), j \in CallsOf("write_all") :
                      i < j /\ trace[i].ok
               /\ fault.val.call # "write_all" =>
                      Sink = encode(Target(op).file_format, arg.val)

\* C25: a Ron handle was asked to write a value Ron cannot encode, and the
\* sink received nothing.
C25_Witness ==
    /\ op = "write"
    /\ file.some
    /\ file.val.file_format = "Ron"
    /\ arg = Some(Unencodable)
    /\ ret = "LangError"
    /\ trace[Len(trace)] = Call("serialize", FALSE)
    /\ data[file.val.path] = <<>>

\* -------------------------------------------------------------------- C26

\* C26: a write on a ConfigFile whose file exists, failing with the error
\* of encoding the value or of writing the bytes, leaves the file holding
\* what it held before the call.
C26_FailedWriteKeepsContents ==
    [][ (/\ op' = "write"
         /\ file.some
         /\ file.val.path \in fs
         /\ ret' \in {"LangError", "WriteConfig"}
         /\ fault'.val.call \in {"none", "write_all"}) =>
            /\ file.val.path \in fs'
            /\ data'[file.val.path] = data[file.val.path]
      ]_vars

\* -------------------------------------------------------------------- C27

\* The latest call was search_config_file()?.fallback_default()?
\* .read_or_default() and created the file: the search had found nothing,
\* for the resolved path did not exist.
CreatedDefault ==
    /\ op = "shortcut_read_or_default"
    /\ ret = "Ok"
    /\ file.some
    /\ trace[1] = Call("exists", FALSE)

Stored == data[file.val.path]

DocOf(c) == encode(file.val.file_format, callers[c].arg.val)

\* The latest operation of every caller is a write that has returned Ok.
BothWrote ==
    \A c \in Callers :
        /\ callers[c].op = "write"
        /\ callers[c].pc = "done"
        /\ callers[c].ret = Some(Ok(Unit))

\* The two writes ran at the same time.
Overlapped == \A c \in Callers : ~callers[c].alone

Returns(c, name) ==
    /\ callers[c].pc # "done"
    /\ callers'[c].pc = "done"
    /\ callers'[c].op = name

\* C24: a write that no other operation overlaps and that returns Ok
\* leaves the file holding the document of its value, and a read that no
\* other operation overlaps returns what the file holds when it returns:
\* a read begun after the write has returned observes the value written.
C24_ReadAfterWrite ==
    [][ \A c \in Callers :
          /\ (Returns(c, "write") /\ callers'[c].alone
                  /\ callers'[c].ret = Some(Ok(Unit))) =>
                 data'[file.val.path] = DocOf(c)
          /\ (Returns(c, "read") /\ callers'[c].alone
                  /\ file.val.path \in fs) =>
                 /\ data' = data
                 /\ callers'[c].ret =
                        Some(read_str(file.val.file_format, Stored))
      ]_vars

\* C24: while a write over an existing file has truncated it and written
\* the first piece of its document only, a read that overlaps it has
\* returned: it saw that piece alone and failed to decode it.
C24_Witness ==
    \E r, w \in Callers :
        /\ callers[w].op = "write"
        /\ callers[w].pc = "to_writer"
        /\ callers[w].off = 1
        /\ ~callers[w].fresh
        /\ ~callers[w].alone
        /\ callers[r].op = "read"
        /\ callers[r].pc = "done"
        /\ ~callers[r].alone
        /\ callers[r].got = <<"Json">>
        /\ callers[r].ret = Some(Err("LangError"))
        /\ Stored = <<"Json">>

\* -------------------------------------------------------------------- C28

\* The latest operation of every caller is a read_or_new that has returned
\* a value, begun while the path did not exist, the two overlapped, and
\* their defaults differ.
BothReadOrNew ==
    /\ Overlapped
    /\ callers["c1"].arg # callers["c2"].arg
    /\ \A c \in Callers :
           /\ callers[c].op = "read_or_new"
           /\ callers[c].pc = "done"
           /\ callers[c].fresh
           /\ callers[c].ret.val.ok

\* C28, as claimed: every caller's returned value is the value the file
\* holds once both calls have returned, and at most one caller has taken
\* the creating branch.
C28_ReturnsStored ==
    BothReadOrNew =>
        /\ \A c \in Callers :
               read_str(file.val.file_format, Stored) = callers[c].ret.val
        /\ \E c \in Callers : callers[c].branch # "create"

\* C28, amended: a read_or_new that takes the creating branch returns its
\* own default, whatever the file holds in the end; a read_or_new that no
\* other operation overlaps returns the value the file holds when it
\* returns.
C28_OwnDefault ==
    [][ \A c \in Callers :
          (Returns(c, "read_or_new") /\ callers'[c].ret.val.ok) =>
              /\ callers'[c].branch = "create" =>
                     callers'[c].ret.val = Ok(callers'[c].arg.val)
              /\ callers'[c].alone =>
                     read_str(file.val.file_format, data'[file.val.path])
                         = callers'[c].ret.val
      ]_vars

\* C28: two overlapping calls of read_or_new with different defaults, on a
\* path that did not exist, have both created the file and each returned
\* its own default.
C28_Witness ==
    /\ BothReadOrNew
    /\ \A c \in Callers :
           /\ callers[c].branch = "create"
           /\ callers[c].ret.val = Ok(callers[c].arg.val)

====
